---- MODULE Spec2Model ----
(***************************************************************************)
(* RamCacheCLFUS (iocore/cache/RamCacheCLFUS.cc): the Clocked Least        *)
(* Frequently Used by Size RAM cache.  The cache object is modelled by one *)
(* variable per member; get, put and fixup run under the volume mutex and  *)
(* are one action each; compress_entries is split where it releases the    *)
(* mutex.                                                                  *)
(***************************************************************************)
EXTENDS Integers, Sequences, FiniteSets, TLC

\* ------------------------------------------------------------------------
\* Program constants
\* ------------------------------------------------------------------------
REQUIRED_COMPRESSION_PCT == 90
REQUIRED_SHRINK_PCT == 80
HISTORY_HYSTERIA == 10
ENTRY_OVERHEAD == 256

CACHE_COMPRESSION_NONE == 0
CACHE_COMPRESSION_FASTLZ == 1
CACHE_COMPRESSION_LIBZ == 2

bucket_sizes ==
  <<127, 251, 509, 1021, 2039, 4093, 8191, 16381, 32749, 65521, 131071, 262139,
    524287, 1048573, 2097143, 4194301, 8388593, 16777213, 33554393, 67108859,
    134217689, 268435399, 536870909, 1073741789, 2147483647>>

\* ------------------------------------------------------------------------
\* Bounds of the model
\* ------------------------------------------------------------------------
\* largest hit count an operation may leave on an entry
MaxHits == 3
\* how far below zero ncompressed may be driven
MaxDebt == 6

\* ------------------------------------------------------------------------
\* Inputs
\* ------------------------------------------------------------------------
\* INK_MD5 digests as their four 32-bit words; word(3) picks the bucket, the
\* seen slot and the 16-bit fingerprint.
\*   KA: word(3) = 65541  -> bucket 9 of 127, fingerprint 1
\*   KB: word(3) = 131073 -> bucket 9 of 127, fingerprint 2
\*   KC: word(3) = 5      -> bucket 5 of 127, fingerprint 0
KA == <<0, 0, 0, 65541>>
KB == <<0, 0, 0, 131073>>
KC == <<0, 0, 0, 5>>
Keys == {KA, KB, KC}

\* The digests of a warm-up: one per bucket of the initial table, Filler(25)
\* falling into bucket 9 with KA and KB.
Filler(j) == <<0, 0, 0, 1000 + j>>

\* all digests, in the order the allocator of the model names addresses
KeyOrder == <<KA, KB, KC>> \o [j \in 1..bucket_sizes[1] |-> Filler(j)]

AuxKeys == {1, 2}

\* IOBufferData objects handed to put: ptr is the object's address, val names
\* the byte content, n is the number of payload bytes, bsize is block_size(),
\* z is the compression type of the bytes held (0: plain).
BufSmall == [ptr |-> 1, val |-> "s", n |-> 8, bsize |-> 32, z |-> 0]
BufText == [ptr |-> 2, val |-> "t", n |-> 40, bsize |-> 64, z |-> 0]
Bufs == {BufSmall, BufText}
\* the first 16 bytes of the text of BufText, in a block of their own
BufMid == [ptr |-> 3, val |-> "t", n |-> 16, bsize |-> 32, z |-> 0]

\* 40 bytes that a codec shrinks by a sixteenth only
BufMild == [ptr |-> 4, val |-> "m", n |-> 40, bsize |-> 64, z |-> 0]

NullData == [ptr |-> 0, val |-> "", n |-> 0, bsize |-> 0, z |-> 0]
NoContent == [val |-> "", n |-> 0]
Garbage == "garbage"

\* The workloads: what init is called with (max_bytes), the records.config
\* settings (compress: cache_config_ram_cache_compress, compress_percent),
\* the number of warm-up puts (of Filler(1), Filler(2), ... with BufText, not
\* copied) that follow init, and what the callers then pass to put (keys,
\* aux, bufs, copy) and to get and fixup (reads, aux).
LoadFill ==
  [max_bytes |-> 300, keys |-> Keys, aux |-> {1}, bufs |-> {BufText},
   copy |-> {TRUE}, compress |-> CACHE_COMPRESSION_NONE,
   compress_percent |-> 100, warm |-> 0,
   reads |-> Keys]
LoadAux ==
  [max_bytes |-> 300, keys |-> {KA, KB}, aux |-> AuxKeys, bufs |-> {BufText},
   copy |-> {FALSE}, compress |-> CACHE_COMPRESSION_NONE,
   compress_percent |-> 100, warm |-> 0,
   reads |-> {KA, KB}]
LoadSizes ==
  [max_bytes |-> 300, keys |-> {KA, KC}, aux |-> {1}, bufs |-> Bufs,
   copy |-> BOOLEAN, compress |-> CACHE_COMPRESSION_NONE,
   compress_percent |-> 100, warm |-> 0,
   reads |-> {KA, KC}]
LoadLibz ==
  [max_bytes |-> 300, keys |-> {KA, KB}, aux |-> {1}, bufs |-> {BufText},
   copy |-> {FALSE}, compress |-> CACHE_COMPRESSION_LIBZ,
   compress_percent |-> 100, warm |-> 0,
   reads |-> {KA, KB}]
LoadFastlz ==
  [max_bytes |-> 300, keys |-> {KA, KB}, aux |-> {1}, bufs |-> {BufSmall},
   copy |-> {FALSE}, compress |-> CACHE_COMPRESSION_FASTLZ,
   compress_percent |-> 100, warm |-> 0,
   reads |-> {KA, KB}]
\* a cache warmed up to one resident per bucket, about to grow its table
LoadGrow ==
  [max_bytes |-> 100000, keys |-> {KA, KB}, aux |-> {1}, bufs |-> {BufText},
   copy |-> {FALSE}, compress |-> CACHE_COMPRESSION_NONE,
   compress_percent |-> 100, warm |-> bucket_sizes[1],
   reads |-> {KA, KB}]
\* a cache that holds one resident, its callers only putting payloads too
\* short for fastlz
LoadTight ==
  [max_bytes |-> 50, keys |-> Keys, aux |-> {1}, bufs |-> {BufSmall},
   copy |-> {FALSE}, compress |-> CACHE_COMPRESSION_FASTLZ,
   compress_percent |-> 100, warm |-> 0,
   reads |-> {}]
\* a cache that holds one resident of 64 bytes, compressed by libz, its
\* callers putting the same text in their own buffer or as a copy
LoadSwap ==
  [max_bytes |-> 100, keys |-> {KA, KB}, aux |-> {1}, bufs |-> {BufText},
   copy |-> BOOLEAN, compress |-> CACHE_COMPRESSION_LIBZ,
   compress_percent |-> 100, warm |-> 0,
   reads |-> {KA}]
\* one digest, put with texts of two lengths, compressed by libz
LoadMixed ==
  [max_bytes |-> 300, keys |-> {KA}, aux |-> {1}, bufs |-> {BufMid, BufText},
   copy |-> BOOLEAN, compress |-> CACHE_COMPRESSION_LIBZ,
   compress_percent |-> 100, warm |-> 0,
   reads |-> {KA}]
\* one digest, put with a short payload and with one that hardly shrinks,
\* each in a block larger than the payload, compressed by libz
LoadMild ==
  [max_bytes |-> 300, keys |-> {KA}, aux |-> {1}, bufs |-> {BufSmall, BufMild},
   copy |-> {FALSE}, compress |-> CACHE_COMPRESSION_LIBZ,
   compress_percent |-> 100, warm |-> 0,
   reads |-> {KA}]
\* a cache of one resident whose warm-up left twelve ghosts behind, with
\* room for a short payload but not for a block of 64 bytes
LoadLong ==
  [max_bytes |-> 360, keys |-> {KA, KC}, aux |-> {1}, bufs |-> Bufs,
   copy |-> BOOLEAN, compress |-> CACHE_COMPRESSION_NONE,
   compress_percent |-> 100, warm |-> HISTORY_HYSTERIA + 3,
   reads |-> {KA, KC}]
Loads ==
  {LoadFill, LoadAux, LoadSizes, LoadLibz, LoadFastlz, LoadGrow, LoadLong}
\* the workloads that run the compressor next to puts
RaceLoads == {LoadTight, LoadSwap, LoadMixed, LoadMild}

\* ------------------------------------------------------------------------
\* State
\* ------------------------------------------------------------------------
VARIABLES
  max_bytes, bytes, objects, history, ibuckets, nbuckets,
  bucket,      \* bucket index -> chain of entries, head first (absent: empty)
  lru,         \* lru[0]: resident queue, lru[1]: history queue, head first
  seen,        \* seen slot -> fingerprint (absent: 0, as after memset)
  ncompressed,
  compressed,  \* the compressor cursor, 0 is the null pointer
  ent,         \* the live RamCacheCLFUSEntry objects, by address
  ret,         \* what the last operation was called with and returned
  everPut,     \* the digests put has been called with
  load,        \* the workload of this run
  sw           \* the frame of compress_entries

cvars == <<max_bytes, bytes, objects, history, ibuckets, nbuckets, bucket, lru,
           seen, ncompressed, compressed, ent>>
vars == <<max_bytes, bytes, objects, history, ibuckets, nbuckets, bucket, lru,
          seen, ncompressed, compressed, ent, ret, everPut, load, sw>>

\* the cache object as one record, for the operators below
Cache ==
  [max_bytes |-> max_bytes, bytes |-> bytes, objects |-> objects,
   history |-> history, ibuckets |-> ibuckets, nbuckets |-> nbuckets,
   bucket |-> bucket, lru |-> lru, seen |-> seen,
   ncompressed |-> ncompressed, compressed |-> compressed, ent |-> ent]

Install(c) ==
  /\ max_bytes' = c.max_bytes
  /\ bytes' = c.bytes
  /\ objects' = c.objects
  /\ history' = c.history
  /\ ibuckets' = c.ibuckets
  /\ nbuckets' = c.nbuckets
  /\ bucket' = c.bucket
  /\ lru' = c.lru
  /\ seen' = c.seen
  /\ ncompressed' = c.ncompressed
  /\ compressed' = c.compressed
  /\ ent' = c.ent

\* ------------------------------------------------------------------------
\* Que / DList primitives
\* ------------------------------------------------------------------------
SeqSet(q) == {q[j] : j \in 1..Len(q)}

IndexOf(q, x) == CHOOSE j \in 1..Len(q) : q[j] = x

\* q.remove(x): an entry is linked at most once
SeqRemove(q, x) ==
  IF x \notin SeqSet(q) THEN q
  ELSE [j \in 1..(Len(q) - 1) |-> IF j < IndexOf(q, x) THEN q[j] ELSE q[j + 1]]

\* lru_link.next and lru_link.prev of x in queue q (0: null)
LinkNext(q, x) ==
  IF x \in SeqSet(q) /\ IndexOf(q, x) < Len(q) THEN q[IndexOf(q, x) + 1] ELSE 0
LinkPrev(q, x) ==
  IF x \in SeqSet(q) /\ IndexOf(q, x) > 1 THEN q[IndexOf(q, x) - 1] ELSE 0

word(key, j) == key[j + 1]

BucketAt(c, i) == IF i \in DOMAIN c.bucket THEN c.bucket[i] ELSE <<>>
SeenAt(c, s) == IF s \in DOMAIN c.seen THEN c.seen[s] ELSE 0

SetBucket(b, i, chain) ==
  IF chain = <<>> THEN [j \in DOMAIN b \ {i} |-> b[j]]
  ELSE [j \in DOMAIN b \cup {i} |-> IF j = i THEN chain ELSE b[j]]

\* bucket[i].remove(e)
BucketRemove(c, e) ==
  SetBucket(c.bucket, word(c.ent[e].key, 3) % c.nbuckets,
            SeqRemove(BucketAt(c, word(c.ent[e].key, 3) % c.nbuckets), e))

\* bucket[i].push(e): a DList pushes at the head
BucketPush(b, i, e) ==
  SetBucket(b, i, <<e>> \o (IF i \in DOMAIN b THEN b[i] ELSE <<>>))

\* THREAD_FREE
FreeEntry(entries, e) == [x \in DOMAIN entries \ {e} |-> entries[x]]

\* THREAD_ALLOC: some free address.  Addresses only ever get compared, so the
\* allocator of the model hands out the address named after the digest (its
\* place in KeyOrder) and, when that one is taken or barred, the same plus a
\* multiple of the number of digests.  dangling is an address that a stalled
\* compress_entries still holds: reuse says whether the allocator hands that
\* one out when it is free.
KeyIndex(key) == CHOOSE j \in 1..Len(KeyOrder) : KeyOrder[j] = key

AllocEntry(c, key, dangling, reuse) ==
  IF reuse /\ dangling # 0 /\ dangling \notin DOMAIN c.ent THEN dangling
  ELSE LET barred == DOMAIN c.ent \cup {dangling}
           Cand(m) == KeyIndex(key) + m * Len(KeyOrder)
       IN Cand(CHOOSE m \in 0..Cardinality(barred) :
                 /\ Cand(m) \notin barred
                 /\ \A m2 \in 0..(m - 1) : Cand(m2) \in barred)

\* address of a buffer the cache allocates for entry e: named after the entry,
\* and distinct from keep, a buffer that is still referenced elsewhere
FreshPtr(e, keep) == IF 10 + e # keep THEN 10 + e ELSE 20 + e

\* the first m bytes of buffer d; reading past the payload yields bytes that
\* are not the payload's
Prefix(d, m) ==
  IF m <= d.n THEN [val |-> d.val, n |-> m] ELSE [val |-> Garbage, n |-> m]

\* memcpy into a fresh xmalloc'ed IOBufferData of m bytes
CopyBuf(e, keep, d, m) ==
  [ptr |-> FreshPtr(e, keep), val |-> Prefix(d, m).val, n |-> m, bsize |-> m,
   z |-> 0]

\* ------------------------------------------------------------------------
\* Macros
\* ------------------------------------------------------------------------
REQUEUE_HITS(h) == IF h # 0 THEN 1 ELSE 0

\* hits <<= 1 on a uint64_t; the hit counts of the model stay far below 2^63
Shl1(h) == h * 2

\* CACHE_VALUE(victim) > CACHE_VALUE(e), the quotients compared exactly
ValueGreater(vh, vs, eh, es) ==
  (vh + 1) * (es + ENTRY_OVERHEAD) > (eh + 1) * (vs + ENTRY_OVERHEAD)

\* ------------------------------------------------------------------------
\* Helpers of the cache
\* ------------------------------------------------------------------------
\* the queue entry e is linked on, by its flag_bits.lru
QueueOf(c, e) == c.lru[c.ent[e].lru + 1]

SetLru(q, j, s) == IF j = 0 THEN <<s, q[2]>> ELSE <<q[1], s>>

\* lru[e->flag_bits.lru].remove(e)
lru_remove(c, e) ==
  [c EXCEPT !.lru = SetLru(@, c.ent[e].lru, SeqRemove(@[c.ent[e].lru + 1], e))]

\* lru[e->flag_bits.lru].enqueue(e)
lru_enqueue(c, e) ==
  [c EXCEPT !.lru = SetLru(@, c.ent[e].lru, Append(@[c.ent[e].lru + 1], e))]

\* RamCacheCLFUS::move_compressed
move_compressed(c, e) ==
  IF e = c.compressed
  THEN IF LinkNext(QueueOf(c, e), e) # 0
       THEN [c EXCEPT !.compressed = LinkNext(QueueOf(c, e), e)]
       ELSE [c EXCEPT !.ncompressed = @ - 1,
                      !.compressed = LinkPrev(QueueOf(c, e), e)]
  ELSE c

\* destroy, lines 287-293: the counters
destroy_account(c, e) ==
  IF c.ent[e].lru = 0
  THEN [c EXCEPT !.objects = @ - 1,
                 !.bytes = @ - (c.ent[e].size + ENTRY_OVERHEAD)]
  ELSE [c EXCEPT !.history = @ - 1]

\* destroy, lines 294-297: off the index and back to the allocator
destroy_free(c, e) ==
  [c EXCEPT !.bucket = BucketRemove(c, e), !.ent = FreeEntry(@, e)]

\* RamCacheCLFUS::destroy
destroy(c, e) ==
  destroy_free(destroy_account(lru_remove(move_compressed(c, e), e), e), e)

\* the Lfree tail of RamCacheCLFUS::tick: e is off the queue already
tick_free(c, e) ==
  [c EXCEPT !.history = @ - 1,
            !.bucket = BucketRemove(c, e),
            !.ent = FreeEntry(@, e)]

\* seeded fault: the history queue is trimmed without the hysteresis
tick_trim_eager(c) ==
  IF c.history <= c.objects THEN c
  ELSE tick_free([c EXCEPT !.lru = <<@[1], Tail(@[2])>>], Head(c.lru[2]))

\* tick, lines 251-253: the history queue is trimmed when it is overlong
tick_trim(c) ==
  IF c.history <= c.objects + HISTORY_HYSTERIA THEN c
  ELSE tick_free([c EXCEPT !.lru = <<@[1], Tail(@[2])>>], Head(c.lru[2]))

\* tick, lines 245-250, for the entry e dequeued from the history queue
tick_head(c, e) ==
  IF Shl1(c.ent[e].hits) # 0
  THEN tick_trim([c EXCEPT !.ent[e].hits = REQUEUE_HITS(Shl1(@)),
                           !.lru = <<@[1], Append(Tail(@[2]), e)>>])
  ELSE tick_free([c EXCEPT !.ent[e].hits = Shl1(@),
                           !.lru = <<@[1], Tail(@[2])>>], e)

\* RamCacheCLFUS::tick
tick(c) == IF c.lru[2] = <<>> THEN c ELSE tick_head(c, Head(c.lru[2]))

\* RamCacheCLFUS::victimize
victimize(c, e) ==
  [c EXCEPT !.objects = @ - 1,
            !.ent[e].data = NullData,
            !.ent[e].lru = 1,
            !.lru = <<@[1], Append(@[2], e)>>,
            !.history = @ + 1]

\* seeded fault: the victim goes back without its bytes
requeue_victim_unaccounted(c, v) ==
  [c EXCEPT !.ent[v].hits = REQUEUE_HITS(@),
            !.lru = <<Append(@[1], v), @[2]>>]

\* seeded fault: the victim goes back with the hits it has
requeue_victim_keeps_hits(c, v) ==
  [c EXCEPT !.bytes = @ + c.ent[v].size + ENTRY_OVERHEAD,
            !.lru = <<Append(@[1], v), @[2]>>]

\* requeue_victims, lines 433-436, for one victim
requeue_victim(c, v) ==
  [c EXCEPT !.bytes = @ + c.ent[v].size + ENTRY_OVERHEAD,
            !.ent[v].hits = REQUEUE_HITS(@),
            !.lru = <<Append(@[1], v), @[2]>>]

\* RamCacheCLFUS::requeue_victims
RECURSIVE requeue_victims(_, _)
requeue_victims(c, victims) ==
  IF victims = <<>> THEN c
  ELSE requeue_victims(requeue_victim(c, Head(victims)), Tail(victims))

\* the entries in the order lines 117-121 pop them: buckets lo..hi in order,
\* each chain head first
RECURSIVE ChainsInOrder(_, _, _)
ChainsInOrder(b, lo, hi) ==
  IF lo > hi THEN <<>>
  ELSE IF lo = hi THEN (IF lo \in DOMAIN b THEN b[lo] ELSE <<>>)
  ELSE ChainsInOrder(b, lo, (lo + hi) \div 2)
         \o ChainsInOrder(b, (lo + hi) \div 2 + 1, hi)

Reverse(q) == [j \in 1..Len(q) |-> q[Len(q) + 1 - j]]

\* new_bucket after the pushes of line 120: a chain holds the entries of its
\* bucket, the one pushed last at its head
Rehash(entries, todo, anbuckets) ==
  [i \in {word(entries[x].key, 3) % anbuckets : x \in SeqSet(todo)} |->
     Reverse(SelectSeq(todo,
                       LAMBDA x : word(entries[x].key, 3) % anbuckets = i))]

\* seeded fault: the entries are rehashed by the old bucket count
resize_hashtable_old_modulus(c) ==
  [c EXCEPT !.bucket = Rehash(c.ent,
                              ChainsInOrder(c.bucket, 0, c.nbuckets - 1),
                              c.nbuckets),
            !.nbuckets = bucket_sizes[c.ibuckets + 1],
            !.seen = <<>>]

\* RamCacheCLFUS::resize_hashtable: every entry is popped from its old chain
\* and pushed onto its new one; seen is cleared
resize_hashtable(c) ==
  [c EXCEPT !.bucket = Rehash(c.ent,
                              ChainsInOrder(c.bucket, 0, c.nbuckets - 1),
                              bucket_sizes[c.ibuckets + 1]),
            !.nbuckets = bucket_sizes[c.ibuckets + 1],
            !.seen = <<>>]

\* the chain walk of get and fixup: the first entry of the chain that matches
\* the digest and both aux keys (0: none)
RECURSIVE FindEntry(_, _, _, _, _)
FindEntry(c, chain, key, auxkey1, auxkey2) ==
  IF chain = <<>> THEN 0
  ELSE IF /\ c.ent[Head(chain)].key = key
          /\ c.ent[Head(chain)].auxkey1 = auxkey1
          /\ c.ent[Head(chain)].auxkey2 = auxkey2
       THEN Head(chain)
       ELSE FindEntry(c, Tail(chain), key, auxkey1, auxkey2)

Lookup(c, key, auxkey1, auxkey2) ==
  FindEntry(c, BucketAt(c, word(key, 3) % c.nbuckets), key, auxkey1, auxkey2)

\* ------------------------------------------------------------------------
\* get
\* ------------------------------------------------------------------------
\* the bytes a caller finds in buffer d
Content(d) == [val |-> d.val, n |-> d.n]

\* fastlz_decompress / uncompress of e->data into a buffer of e->len bytes:
\* succeeds when the data is a stream of the entry's codec that expands to
\* exactly e->len bytes
DecompressOk(x) ==
  /\ x.compressed \in {CACHE_COMPRESSION_FASTLZ, CACHE_COMPRESSION_LIBZ}
  /\ x.data.z = x.compressed
  /\ x.data.bsize = x.compressed_len
  /\ x.data.n = x.len

\* the buffer of line 198, holding the decompressed bytes
Decompressed(x, e, keep) ==
  [ptr |-> FreshPtr(e, keep), val |-> x.data.val, n |-> x.len,
   bsize |-> x.len, z |-> 0]

\* get, lines 198-209: the decompressed payload is returned and, unless the
\* entry is copy-in-copy-out, kept in place of the compressed one
get_decompressed(c, e, keep) ==
  [c |-> IF ~c.ent[e].copy
         THEN [c EXCEPT !.bytes = @ + (c.ent[e].compressed_len - c.ent[e].size),
                        !.ent[e].size = c.ent[e].compressed_len,
                        !.ent[e].compressed = 0,
                        !.ent[e].data = Decompressed(c.ent[e], e, keep)]
         ELSE c,
   r |-> 1, out |-> Content(Decompressed(c.ent[e], e, keep)), path |-> "HIT"]

\* seeded fault: a failed decompression leaves the entry in the cache
get_memory_keeps(c, e, keep, zok) ==
  IF c.ent[e].compressed # 0
  THEN IF ~(zok /\ DecompressOk(c.ent[e]))
       THEN [c |-> c, r |-> 0, out |-> NoContent, path |-> "Z_ERR"]
       ELSE get_decompressed(c, e, keep)
  ELSE [c |-> c, r |-> 1,
        out |-> IF c.ent[e].copy THEN Prefix(c.ent[e].data, c.ent[e].len)
                ELSE Content(c.ent[e].data),
        path |-> "HIT"]

\* get, lines 169-220: e is in memory; zok: the decompressor does not fail
\* on a stream it could expand (it fails when it gets no memory)
get_memory(c, e, keep, zok) ==
  IF c.ent[e].compressed # 0
  THEN IF ~(zok /\ DecompressOk(c.ent[e]))
       THEN [c |-> destroy(c, e), r |-> 0, out |-> NoContent, path |-> "Z_ERR"]
       ELSE get_decompressed(c, e, keep)
  ELSE [c |-> c, r |-> 1,
        out |-> IF c.ent[e].copy THEN Prefix(c.ent[e].data, c.ent[e].len)
                ELSE Content(c.ent[e].data),
        path |-> "HIT"]

\* get, lines 167-225: e was moved to the back of its queue
get_found(c, e, keep, zok) ==
  IF c.ent[e].lru = 1
  THEN [c |-> c, r |-> 0, out |-> NoContent, path |-> "HISTORY"]
  ELSE get_memory([c EXCEPT !.ent[e].hits = @ + 1], e, keep, zok)

\* seeded fault: the entry found stays where it is on its queue
get_lookup_unmoved(c, e, keep, zok) ==
  IF e = 0 THEN [c |-> c, r |-> 0, out |-> NoContent, path |-> "MISS"]
  ELSE get_found(move_compressed(c, e), e, keep, zok)

\* get, lines 162-233: e is where the chain walk ended
get_lookup(c, e, keep, zok) ==
  IF e = 0 THEN [c |-> c, r |-> 0, out |-> NoContent, path |-> "MISS"]
  ELSE get_found(lru_enqueue(lru_remove(move_compressed(c, e), e), e), e, keep,
                 zok)

\* RamCacheCLFUS::get
get_codec(c, key, auxkey1, auxkey2, keep, zok) ==
  IF c.max_bytes = 0
  THEN [c |-> c, r |-> 0, out |-> NoContent, path |-> "OFF"]
  ELSE get_lookup(c, Lookup(c, key, auxkey1, auxkey2), keep, zok)

\* RamCacheCLFUS::get with a decompressor that does not fail
get(c, key, auxkey1, auxkey2, keep) ==
  get_codec(c, key, auxkey1, auxkey2, keep, TRUE)

\* ------------------------------------------------------------------------
\* fixup
\* ------------------------------------------------------------------------
\* seeded fault: fixup moves the entry to the back of its queue, as get does
fixup_lookup_requeue(c, e, new_auxkey1, new_auxkey2) ==
  IF e = 0 THEN [c |-> c, r |-> 0]
  ELSE [c |-> [lru_enqueue(lru_remove(c, e), e) EXCEPT
                 !.ent[e].auxkey1 = new_auxkey1,
                 !.ent[e].auxkey2 = new_auxkey2],
        r |-> 1]

\* fixup, lines 602-609: e is where the chain walk ended
fixup_lookup(c, e, new_auxkey1, new_auxkey2) ==
  IF e = 0 THEN [c |-> c, r |-> 0]
  ELSE [c |-> [c EXCEPT !.ent[e].auxkey1 = new_auxkey1,
                        !.ent[e].auxkey2 = new_auxkey2],
        r |-> 1]

\* RamCacheCLFUS::fixup
fixup(c, key, old_auxkey1, old_auxkey2, new_auxkey1, new_auxkey2) ==
  IF c.max_bytes = 0 THEN [c |-> c, r |-> 0]
  ELSE fixup_lookup(c, Lookup(c, key, old_auxkey1, old_auxkey2),
                    new_auxkey1, new_auxkey2)

\* ------------------------------------------------------------------------
\* put
\* ------------------------------------------------------------------------
\* The arguments and locals of one call travel in a record a:
\*   key, data, len, copy, auxkey1, auxkey2: the arguments
\*   size: copy ? len : data->block_size()          (line 445)
\*   i: key->word(3) % nbuckets on entry             (line 443)
\*   dangling, reuse, keep: the allocator's choices (AllocEntry, FreshPtr)
\* and the result is [c, r, path, e]: the cache, the return value, the DDebug
\* tag of the exit taken and the entry the call ended with.

SetSeen(sn, s, k) ==
  IF k = 0 THEN [j \in DOMAIN sn \ {s} |-> sn[j]]
  ELSE [j \in DOMAIN sn \cup {s} |-> IF j = s THEN k ELSE sn[j]]

\* the payload reference stored in the entry (lines 466-475 and 560-567)
StoredData(e, a) ==
  IF ~a.copy THEN a.data ELSE CopyBuf(e, a.keep, a.data, a.len)

\* seeded fault: the lookup loop steps over an entry with other aux keys
RECURSIVE put_walk_skipping(_, _, _)
put_walk_skipping(c, chain, a) ==
  IF chain = <<>> THEN [c |-> c, e |-> 0]
  ELSE IF /\ c.ent[Head(chain)].key = a.key
          /\ c.ent[Head(chain)].auxkey1 = a.auxkey1
          /\ c.ent[Head(chain)].auxkey2 = a.auxkey2
       THEN [c |-> c, e |-> Head(chain)]
       ELSE put_walk_skipping(c, Tail(chain), a)

\* the lookup loop of put (lines 446-456): the matching entry, every entry of
\* the digest with other aux keys met on the way destroyed
RECURSIVE put_walk(_, _, _)
put_walk(c, chain, a) ==
  IF chain = <<>> THEN [c |-> c, e |-> 0]
  ELSE IF c.ent[Head(chain)].key = a.key
       THEN IF /\ c.ent[Head(chain)].auxkey1 = a.auxkey1
               /\ c.ent[Head(chain)].auxkey2 = a.auxkey2
            THEN [c |-> c, e |-> Head(chain)]
            ELSE put_walk(destroy(c, Head(chain)), Tail(chain), a)
       ELSE put_walk(c, Tail(chain), a)

\* seeded fault: the update leaves bytes as it is
put_store_unaccounted(c, e, a) ==
  [c EXCEPT !.ent[e].size = a.size,
            !.ent[e].data = StoredData(e, a),
            !.ent[e].copy = a.copy,
            !.ent[e].compressed = 0]

\* lines 463-476: the new payload replaces the old one
put_store(c, e, a) ==
  [c EXCEPT !.bytes = @ + (a.size - c.ent[e].size),
            !.ent[e].size = a.size,
            !.ent[e].data = StoredData(e, a),
            !.ent[e].copy = a.copy,
            !.ent[e].compressed = 0]

\* the in-place update of a resident entry (lines 460-480)
put_update(c, e, a) ==
  put_store(lru_enqueue(lru_remove(move_compressed(c, e), e), e), e, a)

\* Linsert, lines 536-542, for one victim
insert_victim(c, v, a) ==
  IF c.bytes + a.size + c.ent[v].size <= c.max_bytes
  THEN requeue_victim(c, v)
  ELSE victimize(c, v)

\* the victims loop of Linsert (lines 535-543)
RECURSIVE insert_victims(_, _, _)
insert_victims(c, victims, a) ==
  IF victims = <<>> THEN c
  ELSE insert_victims(insert_victim(c, Head(victims), a), Tail(victims), a)

\* a newly allocated entry: THREAD_ALLOC copies the zeroed prototype
NewEntry(a) ==
  [key |-> a.key, auxkey1 |-> a.auxkey1, auxkey2 |-> a.auxkey2, hits |-> 1,
   size |-> 0, len |-> 0, compressed_len |-> 0, compressed |-> 0,
   incompressible |-> FALSE, lru |-> 0, copy |-> FALSE, data |-> NullData]

AddEntry(entries, e, x) ==
  [y \in DOMAIN entries \cup {e} |-> IF y = e THEN x ELSE entries[y]]

\* Linsert, lines 552-555: the table grows when objects exceeds nbuckets
put_grow(c) ==
  IF c.objects > c.nbuckets
  THEN resize_hashtable([c EXCEPT !.ibuckets = @ + 1])
  ELSE c

\* Linsert, lines 547-555: the new entry ne
put_new_entry(c, ne, a) ==
  put_grow([c EXCEPT !.ent = AddEntry(@, ne, NewEntry(a)),
                     !.bucket = BucketPush(@, a.i, ne)])

\* Linsert, lines 557-575: e becomes resident
put_install(c, e, a) ==
  [c |-> [c EXCEPT !.ent[e].compressed = 0,
                   !.ent[e].incompressible = FALSE,
                   !.ent[e].lru = 0,
                   !.ent[e].data = StoredData(e, a),
                   !.ent[e].copy = a.copy,
                   !.bytes = @ + a.size + ENTRY_OVERHEAD,
                   !.ent[e].size = a.size,
                   !.objects = @ + 1,
                   !.lru = <<Append(@[1], e), @[2]>>,
                   !.ent[e].len = a.len],
   r |-> 1, path |-> "INSERTED", e |-> e]

\* Linsert, lines 544-556, with ne the entry THREAD_ALLOC would return
put_insert_entry(c, e, ne, a) ==
  IF e # 0 THEN put_install([c EXCEPT !.history = @ - 1], e, a)
  ELSE put_install(put_new_entry(c, ne, a), ne, a)

\* Linsert, lines 544-577, the victims settled
put_insert_settled(c, e, a) ==
  put_insert_entry(c, e, AllocEntry(c, a.key, a.dangling, a.reuse), a)

\* Linsert (lines 534-577)
put_insert(c, e, victims, a) ==
  put_insert_settled(insert_victims(c, victims, a), e, a)

\* Lhistory, lines 581-592, with ne the entry THREAD_ALLOC returns
put_ghost(c, ne, a) ==
  [c |-> [c EXCEPT !.ent = AddEntry(@, ne, [NewEntry(a) EXCEPT
                                             !.size = a.data.bsize,
                                             !.lru = 1]),
                   !.bucket = BucketPush(@, a.i, ne),
                   !.lru = <<@[1], Append(@[2], ne)>>,
                   !.history = @ + 1],
   r |-> 0, path |-> "HISTORY", e |-> ne]

\* Lhistory, lines 580-593, the victims requeued
put_history_requeued(c, a) ==
  put_ghost(c, AllocEntry(c, a.key, a.dangling, a.reuse), a)

\* Lhistory (lines 578-593)
put_history(c, victims, a) ==
  put_history_requeued(requeue_victims(c, victims), a)

\* lines 502-507: no victim is left and the payload does not fit
put_no_victim(c, e, victims) ==
  [c |-> requeue_victims(IF e # 0
                         THEN [c EXCEPT !.lru = <<@[1], Append(@[2], e)>>]
                         ELSE c, victims),
   r |-> 0, path |-> "NO VICTIM", e |-> e]

\* seeded fault: the victim's hits are not shifted
put_dequeue_unshifted(c, victim) ==
  [c EXCEPT !.lru = <<Tail(@[1]), @[2]>>,
            !.bytes = @ - (c.ent[victim].size + ENTRY_OVERHEAD),
            !.compressed = IF victim = @ THEN 0 ELSE @,
            !.ncompressed = IF victim = c.compressed THEN @ ELSE @ - 1]

\* lines 500 and 509-517: the head of the resident queue becomes a victim
put_dequeue(c, victim) ==
  [c EXCEPT !.lru = <<Tail(@[1]), @[2]>>,
            !.bytes = @ - (c.ent[victim].size + ENTRY_OVERHEAD),
            !.compressed = IF victim = @ THEN 0 ELSE @,
            !.ncompressed = IF victim = c.compressed THEN @ ELSE @ - 1,
            !.ent[victim].hits = Shl1(@)]

\* lines 524-529: the ghost e lost against the victim
put_lost(c, e) ==
  [c |-> [c EXCEPT !.lru = <<@[1], Append(@[2], e)>>],
   r |-> 0, path |-> "INC HISTORY", e |-> e]

\* the while (1) loop (lines 499-533)
RECURSIVE put_loop(_, _, _, _)
\* lines 519-532: the rest of one round, victim dequeued and tick done
RECURSIVE put_contest(_, _, _, _, _)

put_contest(c, e, victim, victims, a) ==
  IF e = 0 THEN put_history(c, victims, a)
  ELSE IF /\ c.bytes + c.ent[victim].size + a.size > c.max_bytes
          /\ ValueGreater(c.ent[victim].hits, c.ent[victim].size,
                          c.ent[e].hits, c.ent[e].size)
       THEN put_lost(requeue_victims(c, victims), e)
       ELSE IF c.bytes + a.size <= c.max_bytes
            THEN put_insert(c, e, victims, a)
            ELSE put_loop(c, e, victims, a)

put_loop(c, e, victims, a) ==
  IF c.lru[1] = <<>>
  THEN IF c.bytes + a.size <= c.max_bytes
       THEN put_insert(c, e, victims, a)
       ELSE put_no_victim(c, e, victims)
  ELSE put_contest(tick(put_dequeue(c, Head(c.lru[1]))), e, Head(c.lru[1]),
                   Append(victims, Head(c.lru[1])), a)

\* seeded fault: the filter turns down only when history > objects
put_filter_strict(c, kk, k, a) ==
  IF c.history > c.objects /\ kk # k
  THEN [c |-> c, r |-> 0, path |-> "UNSEEN", e |-> 0]
  ELSE put_loop(c, 0, <<>>, a)

\* seeded fault: the filter turns down every new fingerprint
put_filter_any(c, kk, k, a) ==
  IF kk # k
  THEN [c |-> c, r |-> 0, path |-> "UNSEEN", e |-> 0]
  ELSE put_loop(c, 0, <<>>, a)

\* lines 493-497: the seen slot holds k now and held kk
put_filter(c, kk, k, a) ==
  IF c.history >= c.objects /\ kk # k
  THEN [c |-> c, r |-> 0, path |-> "UNSEEN", e |-> 0]
  ELSE put_loop(c, 0, <<>>, a)

\* s and k of lines 490-491
SeenSlot(c, key) == word(key, 3) % bucket_sizes[c.ibuckets + 1]
Fingerprint(key) == (word(key, 3) \div 65536) % 65536

\* seeded fault: the fingerprint is not written to its slot
put_seen_unarmed(c, a) ==
  put_filter(c, SeenAt(c, SeenSlot(c, a.key)), Fingerprint(a.key), a)

\* the seen filter (lines 489-498) and what follows it
put_seen(c, a) ==
  put_filter([c EXCEPT !.seen = SetSeen(@, SeenSlot(c, a.key),
                                        Fingerprint(a.key))],
             SeenAt(c, SeenSlot(c, a.key)), Fingerprint(a.key), a)

\* seeded fault: the initial-fill exit is taken with ghosts on the queue
put_try_fits(c, e, a) ==
  IF c.bytes + a.size <= c.max_bytes
  THEN put_insert(c, e, <<>>, a)
  ELSE IF e = 0 THEN put_seen(c, a)
  ELSE put_loop(c, e, <<>>, a)

\* lines 482-533: e is 0 or a ghost taken off the history queue
put_try(c, e, a) ==
  IF c.lru[2] = <<>> /\ c.bytes + a.size <= c.max_bytes
  THEN put_insert(c, e, <<>>, a)
  ELSE IF e = 0 THEN put_seen(c, a)
  ELSE put_loop(c, e, <<>>, a)

\* lines 458-481: the lookup ended on e, its hits incremented
put_found(c, e, a) ==
  IF c.ent[e].lru = 0
  THEN [c |-> put_update(c, e, a), r |-> 1, path |-> "HIT", e |-> e]
  ELSE put_try([c EXCEPT !.lru = <<@[1], SeqRemove(@[2], e)>>], e, a)

\* put after the lookup loop (lines 457-533)
put_admit(c, e, a) ==
  IF e = 0 THEN put_try(c, 0, a)
  ELSE put_found([c EXCEPT !.ent[e].hits = @ + 1], e, a)

\* what the call found: nothing, a resident entry or a ghost
Was(c, e) ==
  IF e = 0 THEN "none" ELSE IF c.ent[e].lru = 0 THEN "resident" ELSE "ghost"

\* the result of put, with what its lookup loop did
put_result(c, w, res) ==
  [c |-> res.c, r |-> res.r, path |-> res.path, e |-> res.e,
   conflict |-> (w.c.ent # c.ent), was |-> Was(c, w.e)]

put_walked(c, w, a) == put_result(c, w, put_admit(w.c, w.e, a))

put_args(c, a) == put_walked(c, put_walk(c, BucketAt(c, a.i), a), a)

\* RamCacheCLFUS::put
put(c, key, data, len, copy, auxkey1, auxkey2, dangling, reuse, keep) ==
  IF c.max_bytes = 0
  THEN [c |-> c, r |-> 0, path |-> "OFF", e |-> 0, conflict |-> FALSE,
        was |-> "none"]
  ELSE put_args(c, [key |-> key, data |-> data, len |-> len, copy |-> copy,
                    auxkey1 |-> auxkey1, auxkey2 |-> auxkey2,
                    size |-> IF copy THEN len ELSE data.bsize,
                    i |-> word(key, 3) % c.nbuckets, dangling |-> dangling,
                    reuse |-> reuse, keep |-> keep])

\* ------------------------------------------------------------------------
\* compress_entries
\* ------------------------------------------------------------------------
\* The sweep's frame is the record sw:
\*   pc: "idle" (not running), "yield" (mutex released at line 337, the
\*       codec about to run), "ucont" (at Lcontinue after the goto of line
\*       343, mutex not held), "crashed" (a null or freed entry was
\*       dereferenced)
\*   e, edata, elen, key: the locals of lines 313 and 334-336
\*   target: cache_config_ram_cache_compress_percent * objects of line 309
\*           (the percentage not yet divided by 100)
\*   holds: MUTEX_TAKE_LOCKs less MUTEX_UNTAKE_LOCKs of the call so far
NoSweep ==
  [pc |-> "idle", e |-> 0, edata |-> NullData, elen |-> 0, key |-> <<>>,
   target |-> 0, holds |-> 0]

\* the length fastlz_compress / compress produce for the first m bytes of a
\* buffer: text shrinks to a quarter, mildly redundant bytes by a sixteenth,
\* anything else grows by the header
CompressedLen(val, m) ==
  IF val = "t" /\ m >= 16 THEN m \div 4
  ELSE IF val = "m" /\ m >= 16 THEN m - m \div 16
       ELSE m + 11

\* line 426: the mutex is released and the call returns
sweep_return(c, f) == [c |-> c, sw |-> [NoSweep EXCEPT !.holds = f.holds - 1]]

\* a null or freed entry is dereferenced
sweep_crash(c, f) == [c |-> c, sw |-> [f EXCEPT !.pc = "crashed"]]

\* lines 334-337: the locals are saved and the mutex released
sweep_yield(c, e, f) ==
  [c |-> c,
   sw |-> [f EXCEPT !.pc = "yield", !.e = e, !.edata = c.ent[e].data,
                    !.elen = c.ent[e].len, !.key = c.ent[e].key,
                    !.holds = @ - 1]]

\* the while loop of compress_entries from its head (lines 312-337)
RECURSIVE sweep_loop(_, _, _)
\* lines 416-424, entered at Lcontinue with e
RECURSIVE sweep_continue(_, _, _, _)
\* lines 420-424, nx being e->lru_link.next
RECURSIVE sweep_advance(_, _, _, _)
\* lines 313-337 for the entry e under the cursor
RECURSIVE sweep_examine(_, _, _, _)

sweep_advance(c, nx, f, ctype) ==
  IF nx = 0 THEN sweep_return(c, f)
  ELSE sweep_loop([c EXCEPT !.compressed = nx, !.ncompressed = @ + 1], f,
                  ctype)

sweep_continue(c, e, f, ctype) ==
  IF e = 0 \/ e \notin DOMAIN c.ent THEN sweep_crash(c, f)
  ELSE sweep_advance(c, LinkNext(QueueOf(c, e), e), f, ctype)

sweep_examine(c, e, f, ctype) ==
  IF c.ent[e].incompressible \/ c.ent[e].compressed # 0
  THEN sweep_continue(c, e, f, ctype)
  ELSE IF ctype \notin {CACHE_COMPRESSION_FASTLZ, CACHE_COMPRESSION_LIBZ}
       THEN sweep_continue([c EXCEPT !.ent[e].compressed_len = c.ent[e].size],
                           e, f, ctype)
       ELSE sweep_yield([c EXCEPT !.ent[e].compressed_len = c.ent[e].size],
                        e, f)

sweep_loop(c, f, ctype) ==
  IF c.compressed # 0 /\ f.target > 100 * c.ncompressed
  THEN IF c.compressed \notin DOMAIN c.ent
       THEN sweep_crash(c, f)
       ELSE sweep_examine(c, c.compressed, f, ctype)
  ELSE sweep_return(c, f)

\* lines 305-308: a null cursor restarts at the head of the resident queue
sweep_cursor(c) ==
  IF c.compressed = 0
  THEN [c EXCEPT !.compressed = IF c.lru[1] = <<>> THEN 0 ELSE Head(c.lru[1]),
                 !.ncompressed = 0]
  ELSE c

\* lines 309-337
sweep_enter(c, ctype, percent) ==
  sweep_loop(c, [NoSweep EXCEPT !.target = percent * c.objects, !.holds = 1],
             ctype)

\* compress_entries from its entry to the first release of the mutex
\* (lines 302-337)
sweep_start(c, ctype, percent) ==
  IF ctype = CACHE_COMPRESSION_NONE THEN [c |-> c, sw |-> NoSweep]
  ELSE sweep_enter(sweep_cursor(c), ctype, percent)

\* the entry the chain walk of lines 370-375 ends on (0: none)
RECURSIVE FindData(_, _, _, _)
FindData(c, chain, key, edata) ==
  IF chain = <<>> THEN 0
  ELSE IF c.ent[Head(chain)].key = key /\ c.ent[Head(chain)].data.ptr = edata.ptr
       THEN Head(chain)
       ELSE FindData(c, Tail(chain), key, edata)

\* lines 387-410: the compressed bytes, or a plain copy, replace the payload
sweep_replace(c, e, l, f, ctype) ==
  IF 100 * l > REQUIRED_SHRINK_PCT * c.ent[e].size
  THEN [c EXCEPT !.ent[e].incompressible = TRUE]
  ELSE IF l < c.ent[e].len
       THEN [c EXCEPT !.ent[e].compressed = ctype,
                      !.ent[e].compressed_len = l,
                      !.bytes = @ + (l - c.ent[e].size),
                      !.ent[e].size = l,
                      !.ent[e].data =
                        [ptr |-> FreshPtr(e, f.edata.ptr),
                         val |-> Prefix(f.edata, f.elen).val,
                         n |-> f.elen, bsize |-> l, z |-> ctype]]
       ELSE [c EXCEPT !.ent[e].compressed = 0,
                      !.bytes = @ + (c.ent[e].len - c.ent[e].size),
                      !.ent[e].size = c.ent[e].len,
                      !.ent[e].data = CopyBuf(e, f.edata.ptr, c.ent[e].data,
                                              c.ent[e].len)]

\* lines 383-410: the result of the codec is committed to entry e
sweep_store(c, e, l, f, ctype) ==
  sweep_replace(IF 100 * l > REQUIRED_COMPRESSION_PCT * c.ent[e].len
                THEN [c EXCEPT !.ent[e].incompressible = TRUE]
                ELSE c, e, l, f, ctype)

\* seeded fault: the result is committed to e without the re-lookup
sweep_relocated_unchecked(c, ee, f, ctype, l, failed) ==
  IF f.e \notin DOMAIN c.ent THEN sweep_crash(c, f)
  ELSE IF failed
       THEN sweep_continue([c EXCEPT !.ent[f.e].incompressible = TRUE], f.e,
                           f, ctype)
       ELSE sweep_continue(sweep_store(c, f.e, l, f, ctype), f.e, f, ctype)

\* lines 376-415: ee is where the chain walk ended
sweep_relocated(c, ee, f, ctype, l, failed) ==
  IF ee = 0 \/ ee # f.e
  THEN sweep_continue(c, c.compressed, f, ctype)
  ELSE IF failed
       THEN sweep_continue([c EXCEPT !.ent[f.e].incompressible = TRUE], f.e,
                           f, ctype)
       ELSE sweep_continue(sweep_store(c, f.e, l, f, ctype), f.e, f, ctype)

\* compress_entries from the reacquisition of the mutex (line 367) to its
\* next release; l and failed are what the codec returned
sweep_commit(c, f, ctype, l, failed) ==
  sweep_relocated(c, FindData(c, BucketAt(c, word(f.key, 3) % c.nbuckets),
                              f.key, f.edata),
                  [f EXCEPT !.holds = @ + 1], ctype, l, failed)

\* the goto Lfailed of line 343, taken with the mutex released: Lfailed
\* (lines 413-415) writes the entry e still points to
sweep_short(c, f) ==
  IF f.e \in DOMAIN c.ent
  THEN [c |-> [c EXCEPT !.ent[f.e].incompressible = TRUE],
        sw |-> [f EXCEPT !.pc = "ucont"]]
  ELSE sweep_crash(c, f)

\* ------------------------------------------------------------------------
\* Operations
\* ------------------------------------------------------------------------
\* ret: the last operation (op), its arguments, its return value r, the
\* DDebug tag of its exit (path; for a step of compress_entries: where it
\* stands, and with key, data and was the candidate's digest, the buffer
\* taken at line 334 and whether the re-lookup found it), the payload get
\* returned (out), and for a
\* put: size (line 445), whether the lookup destroyed an entry with other aux
\* keys (conflict), what it ended on (was), whether the digest was never put
\* before (fresh), once: whether every operation since init was a put of a
\* fresh digest with this size, and first: the exit tag of the operation
\* before when that was the first put ever of this digest, with these aux
\* keys ("": it was not)
NoRet ==
  [op |-> "init", key |-> <<>>, auxkey1 |-> 0, auxkey2 |-> 0,
   new_auxkey1 |-> 0, new_auxkey2 |-> 0, data |-> NullData, copy |-> FALSE,
   size |-> 0, r |-> 0, path |-> "", out |-> NoContent, conflict |-> FALSE,
   was |-> "none", fresh |-> FALSE, once |-> FALSE, first |-> ""]

\* line 445
PutSize(data, copy) == IF copy THEN data.n ELSE data.bsize

\* the cache init leaves: resize_hashtable on the zeroed object
EmptyCache(abytes) ==
  [max_bytes |-> abytes, bytes |-> 0, objects |-> 0, history |-> 0,
   ibuckets |-> 0, nbuckets |-> bucket_sizes[1], bucket |-> <<>>,
   lru |-> <<<<>>, <<>>>>, seen |-> <<>>, ncompressed |-> 0, compressed |-> 0,
   ent |-> <<>>]

\* the warm-up: puts of Filler(lo), ..., Filler(hi), in this order (a cache
\* of no bytes takes none)
RECURSIVE Warm(_, _, _)
Warm(c, lo, hi) ==
  IF lo > hi \/ c.max_bytes = 0 THEN c
  ELSE IF lo = hi
       THEN put(c, Filler(lo), BufText, BufText.n, FALSE, 1, 1, 0, FALSE, 0).c
       ELSE Warm(Warm(c, lo, (lo + hi) \div 2), (lo + hi) \div 2 + 1, hi)

\* the counters an operation may not push past the bounds of the model
\* (the debt counted from what the warm-up may have left)
Bounded(c) ==
  /\ \A x \in DOMAIN c.ent : c.ent[x].hits <= MaxHits
  /\ c.ncompressed >= 0 - MaxDebt - load.warm

\* get, put and fixup are called with the volume mutex held, so they run when
\* the sweep does not hold it
MutexFree == sw.pc \in {"idle", "yield", "ucont"}

\* what a stalled sweep still points to: its entry and its buffer
Dangling == IF sw.pc \in {"yield", "ucont"} THEN sw.e ELSE 0
Keep == IF sw.pc \in {"yield", "ucont"} THEN sw.edata.ptr ELSE 0

Start(loads) ==
  /\ load \in loads
  /\ \E c \in {Warm(EmptyCache(load.max_bytes), 1, load.warm)} :
       /\ max_bytes = c.max_bytes
       /\ bytes = c.bytes
       /\ objects = c.objects
       /\ history = c.history
       /\ ibuckets = c.ibuckets
       /\ nbuckets = c.nbuckets
       /\ bucket = c.bucket
       /\ lru = c.lru
       /\ seen = c.seen
       /\ ncompressed = c.ncompressed
       /\ compressed = c.compressed
       /\ ent = c.ent
  /\ sw = NoSweep
  /\ ret = [NoRet EXCEPT !.once = (load.warm = 0)]
  /\ everPut = {}

Init == Start(Loads)
InitRace == Start(RaceLoads)

Get ==
  /\ MutexFree
  /\ \E key \in load.reads, aux \in load.aux, zok \in BOOLEAN :
       \E res \in {get_codec(Cache, key, aux, aux, Keep, zok)} :
          /\ Bounded(res.c)
          /\ Install(res.c)
          /\ ret' = [NoRet EXCEPT !.op = "get", !.key = key, !.auxkey1 = aux,
                                  !.auxkey2 = aux, !.r = res.r,
                                  !.path = res.path, !.out = res.out]
          /\ UNCHANGED <<sw, everPut, load>>

Put ==
  /\ MutexFree
  /\ \E key \in load.keys, data \in load.bufs, copy \in load.copy,
        aux \in load.aux,
        reuse \in IF Dangling # 0 THEN BOOLEAN ELSE {FALSE} :
       \E res \in {put(Cache, key, data, data.n, copy, aux, aux, Dangling,
                      reuse, Keep)} :
          /\ Bounded(res.c)
          /\ Install(res.c)
          /\ ret' = [NoRet EXCEPT !.op = "put", !.key = key, !.auxkey1 = aux,
                                  !.auxkey2 = aux, !.data = data,
                                  !.copy = copy, !.r = res.r,
                                  !.path = res.path,
                                  !.size = PutSize(data, copy),
                                  !.conflict = res.conflict, !.was = res.was,
                                  !.fresh = (key \notin everPut),
                                  !.once = /\ ret.once
                                           /\ key \notin everPut
                                           /\ \/ ret.op = "init"
                                              \/ ret.size = PutSize(data, copy),
                                  !.first = IF /\ ret.op = "put"
                                               /\ ret.fresh
                                               /\ ret.key = key
                                               /\ ret.auxkey1 = aux
                                            THEN ret.path ELSE ""]
          /\ everPut' = everPut \cup {key}
          /\ UNCHANGED <<sw, load>>

Fixup ==
  /\ MutexFree
  /\ \E key \in load.reads, old \in load.aux, new \in load.aux :
       \E res \in {fixup(Cache, key, old, old, new, new)} :
          /\ Install(res.c)
          /\ ret' = [NoRet EXCEPT !.op = "fixup", !.key = key,
                                  !.auxkey1 = old, !.auxkey2 = old,
                                  !.new_auxkey1 = new, !.new_auxkey2 = new,
                                  !.r = res.r]
          /\ UNCHANGED <<sw, everPut, load>>

SweepRet(res) == [NoRet EXCEPT !.op = "compress", !.path = res.sw.pc]

\* lines 370-376: the chain walk ends on the entry the sweep took
Relocated(c, f) ==
  FindData(c, BucketAt(c, word(f.key, 3) % c.nbuckets), f.key, f.edata) = f.e

\* RamCacheCLFUSCompressor::mainEvent calls compress_entries
Sweep ==
  /\ sw.pc = "idle"
  /\ load.compress_percent # 0
  /\ \E res \in {sweep_start(Cache, load.compress, load.compress_percent)} :
        /\ Bounded(res.c)
        /\ Install(res.c)
        /\ sw' = res.sw
        /\ ret' = SweepRet(res)
        /\ UNCHANGED <<everPut, load>>

\* the read of e->len at line 343: the entry's len, or anything at all when
\* the entry was freed while the mutex was released
ShortRead ==
  IF sw.e \in DOMAIN ent THEN {ent[sw.e].len < 16} ELSE BOOLEAN

\* the codec has run; the mutex is taken again and the result committed
SweepCommit ==
  /\ sw.pc = "yield"
  /\ \E short \in ShortRead, failed \in BOOLEAN :
       /\ ~(load.compress = CACHE_COMPRESSION_FASTLZ /\ short)
       /\ \E res \in {sweep_commit(Cache, sw, load.compress,
                                     CompressedLen(Prefix(sw.edata, sw.elen).val,
                                                   sw.elen), failed)} :
             /\ Bounded(res.c)
             /\ Install(res.c)
             /\ sw' = res.sw
             /\ ret' = [SweepRet(res) EXCEPT
                         !.key = sw.key, !.data = sw.edata,
                         !.was = IF Relocated(Cache, sw) THEN "found"
                                 ELSE "lost"]
             /\ UNCHANGED <<everPut, load>>

\* fastlz and e->len < 16: goto Lfailed without the mutex
SweepShort ==
  /\ sw.pc = "yield"
  /\ load.compress = CACHE_COMPRESSION_FASTLZ
  /\ TRUE \in ShortRead
  /\ \E res \in {sweep_short(Cache, sw)} :
        /\ Install(res.c)
        /\ sw' = res.sw
        /\ ret' = SweepRet(res)
        /\ UNCHANGED <<everPut, load>>

\* Lcontinue and the loop run on without the mutex
SweepUnlocked ==
  /\ sw.pc = "ucont"
  /\ \E res \in {sweep_continue(Cache, sw.e, sw, load.compress)} :
        /\ Bounded(res.c)
        /\ Install(res.c)
        /\ sw' = res.sw
        /\ ret' = SweepRet(res)
        /\ UNCHANGED <<everPut, load>>

Next ==
  \/ Get
  \/ Put
  \/ Fixup
  \/ Sweep
  \/ SweepCommit
  \/ SweepShort
  \/ SweepUnlocked

Spec == Init /\ [][Next]_vars
SpecRace == InitRace /\ [][Next]_vars

\* ------------------------------------------------------------------------
\* Properties
\* ------------------------------------------------------------------------
L0 == lru[1]
L1 == lru[2]

\* the sum of size + ENTRY_OVERHEAD over the entries of queue q
RECURSIVE Footprint(_, _, _)
Footprint(q, lo, hi) ==
  IF lo > hi THEN 0
  ELSE IF lo = hi THEN ent[q[lo]].size + ENTRY_OVERHEAD
  ELSE Footprint(q, lo, (lo + hi) \div 2)
         + Footprint(q, (lo + hi) \div 2 + 1, hi)

Count(q, x) == Cardinality({j \in 1..Len(q) : q[j] = x})

\* C1: the counters agree with the queues: bytes is the sum of
\* size + ENTRY_OVERHEAD over the entries of L0 (L1 adds nothing), objects is
\* the length of L0 and history the length of L1.
C1_Accounting ==
  /\ bytes = Footprint(L0, 1, Len(L0))
  /\ objects = Len(L0)
  /\ history = Len(L1)

\* C1 witness: an accounted state with residents and ghosts, reached by a put
\* that dequeued victims
C1_Witness ==
  /\ ret.op = "put"
  /\ ret.path = "INC HISTORY"
  /\ objects > 0
  /\ history > 0
  /\ C1_Accounting

\* C2: after every completed put, bytes <= max_bytes.
C2_BytesWithinMax == ret.op = "put" => bytes <= max_bytes

\* the entries the hash index holds, chain by chain
Indexed(x) == {i \in DOMAIN bucket : x \in SeqSet(bucket[i])}

\* C3: every live entry is on exactly one of L0 and L1, once; its lru flag
\* names that queue; its data is non-null exactly when it is on L0; and it is
\* in the hash index exactly once, in bucket word(3) mod nbuckets.  The
\* queues and the index hold live entries only.
C3_Structure ==
  /\ SeqSet(L0) \cup SeqSet(L1) = DOMAIN ent
  /\ \A i \in DOMAIN bucket : SeqSet(bucket[i]) \subseteq DOMAIN ent
  /\ \A x \in DOMAIN ent :
       /\ Count(L0, x) + Count(L1, x) = 1
       /\ ent[x].lru = (IF Count(L1, x) = 1 THEN 1 ELSE 0)
       /\ (ent[x].data.ptr # 0) <=> (Count(L0, x) = 1)
       /\ Indexed(x) = {word(ent[x].key, 3) % nbuckets}
       /\ Count(bucket[word(ent[x].key, 3) % nbuckets], x) = 1

\* C3 witness: the table has grown to its second size and entries that
\* shared a chain of the first table sit in different buckets, with residents
\* and the structure intact
C3_Witness ==
  /\ ibuckets = 1
  /\ nbuckets = bucket_sizes[2]
  /\ objects > bucket_sizes[1]
  /\ \E x, y \in DOMAIN ent :
       /\ word(ent[x].key, 3) % bucket_sizes[1]
            = word(ent[y].key, 3) % bucket_sizes[1]
       /\ word(ent[x].key, 3) % nbuckets # word(ent[y].key, 3) % nbuckets
  /\ C3_Structure

\* C4: whenever put returns stored, the get of the same key and aux keys that
\* follows at once is a hit and returns the payload of the put, in its length.
C4_RoundTrip ==
  (ret.op = "put" /\ ret.r = 1) =>
    /\ get(Cache, ret.key, ret.auxkey1, ret.auxkey2, Keep).r = 1
    /\ get(Cache, ret.key, ret.auxkey1, ret.auxkey2, Keep).out
         = Content(ret.data)

\* the live entries of digest key whose aux keys are not (auxkey1, auxkey2)
Stale(entries, key, auxkey1, auxkey2) ==
  {x \in DOMAIN entries :
     /\ entries[x].key = key
     /\ entries[x].auxkey1 # auxkey1 \/ entries[x].auxkey2 # auxkey2}

\* the aux key pairs other than (auxkey1, auxkey2)
OtherAux(auxkey1, auxkey2) == (AuxKeys \X AuxKeys) \ {<<auxkey1, auxkey2>>}

\* C5: a put that meets an entry of its digest with other aux keys (resident
\* or ghost) destroys it: the entry leaves its queue and the index, objects
\* and bytes (resident) or history (ghost) drop by its share, and the put
\* goes on as a put into the cache without that entry would.  Afterwards get
\* with any other aux keys misses and, when the put returned stored, get with
\* the new aux keys returns the new payload.
C5_AuxReplace ==
  [][(ret'.op = "put"
      /\ Stale(ent, ret'.key, ret'.auxkey1, ret'.auxkey2) # {}) =>
       /\ \A x \in Stale(ent, ret'.key, ret'.auxkey1, ret'.auxkey2) :
            /\ x \notin SeqSet(destroy(Cache, x).lru[1])
                          \cup SeqSet(destroy(Cache, x).lru[2])
            /\ \A i \in DOMAIN destroy(Cache, x).bucket :
                 x \notin SeqSet(destroy(Cache, x).bucket[i])
            /\ destroy(Cache, x).objects
                 = objects - (IF ent[x].lru = 0 THEN 1 ELSE 0)
            /\ destroy(Cache, x).bytes
                 = bytes - (IF ent[x].lru = 0
                            THEN ent[x].size + ENTRY_OVERHEAD ELSE 0)
            /\ destroy(Cache, x).history
                 = history - (IF ent[x].lru = 1 THEN 1 ELSE 0)
            /\ \E reuse \in BOOLEAN :
                 /\ Cache' = put(destroy(Cache, x), ret'.key, ret'.data,
                                 ret'.data.n, ret'.copy, ret'.auxkey1,
                                 ret'.auxkey2, Dangling, reuse, Keep).c
                 /\ ret'.r = put(destroy(Cache, x), ret'.key, ret'.data,
                                 ret'.data.n, ret'.copy, ret'.auxkey1,
                                 ret'.auxkey2, Dangling, reuse, Keep).r
       /\ Stale(ent', ret'.key, ret'.auxkey1, ret'.auxkey2) = {}
       /\ \A old \in OtherAux(ret'.auxkey1, ret'.auxkey2) :
            get(Cache', ret'.key, old[1], old[2], Keep).r = 0
       /\ ret'.r = 1 =>
            /\ get(Cache', ret'.key, ret'.auxkey1, ret'.auxkey2, Keep).r = 1
            /\ get(Cache', ret'.key, ret'.auxkey1, ret'.auxkey2, Keep).out
                 = Content(ret'.data)]_vars

\* C5 witness: a put destroyed a conflicting entry and stored the new
\* payload under the new aux keys, while another digest has an entry
C5_Witness ==
  /\ ret.op = "put"
  /\ ret.conflict
  /\ ret.r = 1
  /\ \E x \in DOMAIN ent : ent[x].key # ret.key
  /\ get(Cache, ret.key, ret.auxkey1, ret.auxkey2, Keep).out = Content(ret.data)
  /\ \A old \in OtherAux(ret.auxkey1, ret.auxkey2) :
       get(Cache, ret.key, old[1], old[2], Keep).r = 0

\* C6: fixup returns found exactly when an entry with the key and the old
\* aux keys exists, resident or ghost.  Found: only that entry's aux keys
\* change (both queues, every entry's other fields, the index, the counters
\* and the cursor stay); get with the old aux keys then misses (old # new)
\* and get with the new ones returns what get with the old ones would have
\* returned before.  Not found: nothing changes.
C6_Fixup ==
  [][ret'.op = "fixup" =>
       IF Lookup(Cache, ret'.key, ret'.auxkey1, ret'.auxkey2) = 0
       THEN ret'.r = 0 /\ Cache' = Cache
       ELSE /\ ret'.r = 1
            /\ Cache' = [Cache EXCEPT
                 !.ent[Lookup(Cache, ret'.key, ret'.auxkey1,
                              ret'.auxkey2)].auxkey1 = ret'.new_auxkey1,
                 !.ent[Lookup(Cache, ret'.key, ret'.auxkey1,
                              ret'.auxkey2)].auxkey2 = ret'.new_auxkey2]
            /\ <<ret'.auxkey1, ret'.auxkey2>>
                 # <<ret'.new_auxkey1, ret'.new_auxkey2>> =>
                 get(Cache', ret'.key, ret'.auxkey1, ret'.auxkey2, Keep).r = 0
            /\ get(Cache', ret'.key, ret'.new_auxkey1, ret'.new_auxkey2,
                   Keep).r
                 = get(Cache, ret'.key, ret'.auxkey1, ret'.auxkey2, Keep).r
            /\ get(Cache', ret'.key, ret'.new_auxkey1, ret'.new_auxkey2,
                   Keep).out
                 = get(Cache, ret'.key, ret'.auxkey1, ret'.auxkey2, Keep).out
    ]_vars

\* C6 witness: a fixup to other aux keys found a resident entry that is not
\* at the back of L0, and get with the new aux keys hits
C6_Witness ==
  /\ ret.op = "fixup"
  /\ ret.r = 1
  /\ ret.auxkey1 # ret.new_auxkey1
  /\ Len(L0) >= 2
  /\ Lookup(Cache, ret.key, ret.new_auxkey1, ret.new_auxkey2) = L0[1]
  /\ get(Cache, ret.key, ret.new_auxkey1, ret.new_auxkey2, Keep).r = 1
  /\ get(Cache, ret.key, ret.auxkey1, ret.auxkey2, Keep).r = 0

\* digest key has an entry on L0
Resident(c, key) == \E x \in SeqSet(c.lru[1]) : c.ent[x].key = key
\* digest key has an entry on L1
Ghost(c, key) == \E x \in SeqSet(c.lru[2]) : c.ent[x].key = key

C8_NoGhost ==
  [][(ret'.op = "put" /\ ret'.once /\ objects > 0
      /\ bytes + ret'.size > max_bytes) =>
       /\ ret'.r = 0
       /\ L0' = L0
       /\ objects' = objects
       /\ ~Ghost(Cache', ret'.key)]_vars

\* C8: in a run of puts of pairwise distinct digests of one size, once a put
\* no longer fits, a put of a new digest returns not stored and leaves
\* objects, bytes and the entries of L0 as they are; it leaves the digest as
\* a ghost on L1 exactly when history < objects or the seen slot of the
\* digest already holds its fingerprint, and is turned down by the seen
\* filter with no ghost otherwise.
C8_OneHitWonder ==
  [][(ret'.op = "put" /\ ret'.once /\ objects > 0
      /\ bytes + ret'.size > max_bytes) =>
       /\ ret'.r = 0
       /\ objects' = objects
       /\ bytes' = bytes
       /\ SeqSet(L0') = SeqSet(L0)
       /\ ~Resident(Cache', ret'.key)
       /\ Ghost(Cache', ret'.key) <=>
            \/ history < objects
            \/ SeenAt(Cache, SeenSlot(Cache, ret'.key))
                 = Fingerprint(ret'.key)
       /\ Ghost(Cache', ret'.key) <=> ret'.path = "HISTORY"
       /\ ~Ghost(Cache', ret'.key) <=> ret'.path = "UNSEEN"
       /\ ~Ghost(Cache', ret'.key) => history' = history]_vars

\* C8 witness: in such a run the cache is full, an earlier new digest was
\* left as a ghost and this one was turned down by the seen filter
C8_Witness ==
  /\ ret.op = "put"
  /\ ret.once
  /\ ret.path = "UNSEEN"
  /\ objects > 0
  /\ history > 0
  /\ bytes + ret.size > max_bytes
  /\ ~Ghost(Cache, ret.key)

\* The rounds of the victims loop for a put of `size` bytes that found the
\* ghost e, read off the state before the put.  Round j dequeues L0[j]:
\*   BytesAfter: bytes once L0[1..j] are dequeued
\*   Overflows: installing the payload next to victim j would pass max_bytes
\*   VictimBeats: CACHE_VALUE(victim) > CACHE_VALUE(e), value being
\*     (hits + 1) / (size + ENTRY_OVERHEAD) on the fields as they stand when
\*     compared: the victim's hits doubled at its dequeue, e's hits
\*     incremented by this put, e's size the one its ghost kept
\*   Reached: the loop gets to round j
BytesAfter(j) == bytes - Footprint(L0, 1, j)
Overflows(j, size) == BytesAfter(j) + ent[L0[j]].size + size > max_bytes
VictimBeats(j, e) ==
  (2 * ent[L0[j]].hits + 1) * (ent[e].size + ENTRY_OVERHEAD)
    > (ent[e].hits + 1 + 1) * (ent[L0[j]].size + ENTRY_OVERHEAD)
Reached(j, e, size) ==
  /\ ~(SeqRemove(L1, e) = <<>> /\ bytes + size <= max_bytes)
  /\ \A i \in 1..(j - 1) :
       /\ ~(Overflows(i, size) /\ VictimBeats(i, e))
       /\ BytesAfter(i) + size > max_bytes
Loses(e, size) ==
  \E j \in 1..Len(L0) :
    Reached(j, e, size) /\ Overflows(j, size) /\ VictimBeats(j, e)

\* the ghost a put of these arguments finds (0: none)
GhostOf(key, auxkey1, auxkey2) ==
  IF Lookup(Cache, key, auxkey1, auxkey2) # 0
     /\ Stale(ent, key, auxkey1, auxkey2) = {}
     /\ ent[Lookup(Cache, key, auxkey1, auxkey2)].lru = 1
  THEN Lookup(Cache, key, auxkey1, auxkey2) ELSE 0

\* what C9 says of a put that finds its digest as the ghost e, but for the
\* net change of history, which is by `gain`
Contest(e, gain) ==
  IF Loses(e, ret'.size)
  THEN /\ ret'.r = 0
       /\ L1' # <<>> /\ L1'[Len(L1')] = e
       /\ SeqSet(L0') = SeqSet(L0)
       /\ history' = history
  ELSE /\ ret'.r = 1
       /\ L0' # <<>> /\ L0'[Len(L0')] = e
       /\ e \notin SeqSet(L1')
       /\ history' = history + gain
       /\ get(Cache', ret'.key, ret'.auxkey1, ret'.auxkey2, Keep).r = 1
       /\ get(Cache', ret'.key, ret'.auxkey1, ret'.auxkey2, Keep).out
            = Content(ret'.data)

\* C9 as stated: a put that finds its digest as a ghost (size <= max_bytes)
\* loses exactly when some dequeued victim overflows and beats it: it then
\* returns not stored, the ghost is back on L1 and the victims back on L0;
\* otherwise the ghost is promoted, history is one less, the put returns
\* stored and the get that follows hits.
C9_HistoryOneLess ==
  [][(ret'.op = "put" /\ ret'.size <= max_bytes
      /\ GhostOf(ret'.key, ret'.auxkey1, ret'.auxkey2) # 0) =>
       Contest(GhostOf(ret'.key, ret'.auxkey1, ret'.auxkey2), 0 - 1)]_vars

\* C9: the same, the promotion leaving history one less for the ghost and
\* one more for every victim that Linsert turns into a ghost (while tick
\* frees none: history <= objects + HISTORY_HYSTERIA).
C9_Contest ==
  [][(ret'.op = "put" /\ ret'.size <= max_bytes
      /\ history <= objects + HISTORY_HYSTERIA
      /\ GhostOf(ret'.key, ret'.auxkey1, ret'.auxkey2) # 0) =>
       Contest(GhostOf(ret'.key, ret'.auxkey1, ret'.auxkey2),
               Cardinality(SeqSet(L0) \cap SeqSet(L1')) - 1)]_vars

\* C9 witness: a put found its digest as a ghost and lost the contest to a
\* victim, which is back on L0 behind another resident
C9_Witness ==
  /\ ret.op = "put"
  /\ ret.was = "ghost"
  /\ ret.r = 0
  /\ ret.path = "INC HISTORY"
  /\ Len(L0) >= 2
  /\ L1 # <<>>
  /\ ent[L1[Len(L1)]].key = ret.key
  /\ ent[L1[Len(L1)]].hits >= 2

\* a put turned down by the seen filter or by a lost contest, or left as a
\* new ghost, no entry with other aux keys being in its way
Rejected ==
  /\ ret'.op = "put"
  /\ ret'.r = 0
  /\ ret'.path \in {"UNSEEN", "HISTORY", "INC HISTORY"}
  /\ Stale(ent, ret'.key, ret'.auxkey1, ret'.auxkey2) = {}

\* the entry of the digest of the put, before it (0: none)
Mine == Lookup(Cache, ret'.key, ret'.auxkey1, ret'.auxkey2)

\* q with its first j entries moved to its back, in order
Rotated(q, j) == SubSeq(q, j + 1, Len(q)) \o SubSeq(q, 1, j)

\* C10 as stated: a put turned down by the seen filter or a lost contest
\* leaves L0 in the order it had, the hits of the residents, the other
\* entries of L1 and bytes and objects as they were.
C10_NoSideEffects ==
  [][Rejected =>
       /\ L0' = L0
       /\ \A x \in SeqSet(L0) : ent'[x].hits = ent[x].hits
       /\ \A x \in SeqSet(L1) \ {Mine} : x \in SeqSet(L1') /\ ent'[x] = ent[x]
       /\ bytes' = bytes
       /\ objects' = objects]_vars

\* C10: such a put leaves bytes, objects and the set of residents with their
\* payloads as they were.  Turned down by the seen filter it changes seen[]
\* only.  Otherwise it dequeued the first j >= 1 entries of L0 and put them
\* back behind the others, their hits set to one; every dequeue ticked the
\* clock, which moved the head of L1 to its back with its hits set to one
\* (history <= objects + HISTORY_HYSTERIA: none freed); the digest's ghost,
\* its hits one more when it was there before, is the last of L1.
C10_Requeued ==
  [][(Rejected /\ history <= objects + HISTORY_HYSTERIA) =>
       /\ bytes' = bytes
       /\ objects' = objects
       /\ \A x \in SeqSet(L0) :
            ent'[x] = [ent[x] EXCEPT !.hits = ent'[x].hits]
       /\ IF ret'.path = "UNSEEN"
          THEN Cache' = [Cache EXCEPT !.seen = seen']
          ELSE \E j \in 1..Len(L0) :
                 /\ L0' = Rotated(L0, j)
                 /\ \A i \in 1..Len(L0) :
                      ent'[L0[i]].hits = IF i <= j THEN 1 ELSE ent[L0[i]].hits
                 /\ L1' # <<>>
                 /\ ent'[L1'[Len(L1')]].key = ret'.key
                 /\ ent'[L1'[Len(L1')]].hits
                      = IF Mine = 0 THEN 1 ELSE ent[Mine].hits + 1
                 /\ SubSeq(L1', 1, Len(L1') - 1)
                      = IF SeqRemove(L1, Mine) = <<>> THEN <<>>
                        ELSE Rotated(SeqRemove(L1, Mine),
                                     j % Len(SeqRemove(L1, Mine)))
                 /\ \A i \in 1..Len(SeqRemove(L1, Mine)) :
                      ent'[SeqRemove(L1, Mine)[i]].hits
                        = IF i <= j THEN 1
                          ELSE ent[SeqRemove(L1, Mine)[i]].hits]_vars

\* C10 witness: a put lost the contest; the victim it dequeued is now the
\* last of L0, behind a resident that was behind it, with hits of one
C10_Witness ==
  /\ ret.op = "put"
  /\ ret.r = 0
  /\ ret.path = "INC HISTORY"
  /\ ~ret.conflict
  /\ Len(L0) >= 2
  /\ ent[L0[Len(L0)]].hits = 1
  /\ ent[L0[1]].hits >= 2

\* C11: the compressor cursor is null or points to a live entry that is on
\* L0, also while the sweep has released the mutex.
C11_CursorOnL0 == compressed = 0 \/ compressed \in SeqSet(L0)

\* the candidate of the stalled sweep is gone: destroyed, or victimized and
\* now a ghost on L1
Gone == sw.e \notin DOMAIN ent \/ ent[sw.e].lru = 1

\* the sweep takes the mutex again after the codec has run (line 367)
Reacquires ==
  /\ sw.pc = "yield"
  /\ ret'.op = "compress"
  /\ load.compress = CACHE_COMPRESSION_LIBZ

\* C12: when the candidate is gone as the sweep takes the mutex again, the
\* sweep dereferences no null or freed entry and goes on or returns, and no
\* entry has its payload, size, flags or share of bytes changed.
C12_Abandons ==
  [][(Reacquires /\ Gone) =>
       /\ sw'.pc # "crashed"
       /\ bytes' = bytes
       /\ \A x \in DOMAIN ent :
            /\ x \in DOMAIN ent'
            /\ ent'[x] = [ent[x] EXCEPT
                            !.compressed_len = ent'[x].compressed_len]]_vars

\* C13: the sweep commits the codec's result only to the entry it took and
\* only if that entry still holds the buffer taken at line 334: every other
\* entry, and the candidate when its payload was replaced meanwhile, keeps
\* its data, size and flags, and bytes stays as it is.
C13_CommitsSnapshot ==
  [][Reacquires =>
       /\ \A x \in DOMAIN ent :
            (x # sw.e \/ ent[x].data.ptr # sw.edata.ptr) =>
              /\ x \in DOMAIN ent'
              /\ ent'[x] = [ent[x] EXCEPT
                              !.compressed_len = ent'[x].compressed_len]
       /\ (sw.e \notin DOMAIN ent \/ ent[sw.e].data.ptr # sw.edata.ptr) =>
            bytes' = bytes]_vars

\* C13 witness: the sweep came back for a candidate whose payload a put had
\* replaced meanwhile, and went on: the entry is resident with the new
\* buffer, not compressed
C13_Witness ==
  /\ ret.op = "compress"
  /\ ret.was = "lost"
  /\ ret.path # "crashed"
  /\ \E x \in SeqSet(L0) :
       /\ ent[x].key = ret.key
       /\ ent[x].data.ptr # 0
       /\ ent[x].data.ptr # ret.data.ptr
       /\ ent[x].compressed = 0

\* C14: compress_entries touches the cache only with the mutex held: it is
\* never at Lfailed or Lcontinue without it, and while it waits for the codec
\* and when it has returned it has released the mutex as often as it took it.
C14_LockDiscipline ==
  /\ sw.pc # "ucont"
  /\ sw.pc \in {"idle", "yield"} => sw.holds = 0

\* C15: when the sweep stores the compressed form of a resident entry, the
\* entry is marked compressed, its size is the compressed length, smaller
\* than before, bytes drops by the same amount, and a get of the entry
\* returns the payload that was put (the buffer the entry held).
C15_CompressedRoundTrip ==
  [][(/\ Reacquires
      /\ sw.e \in DOMAIN ent /\ sw.e \in DOMAIN ent'
      /\ ent[sw.e].compressed = 0
      /\ ent'[sw.e].compressed # 0) =>
       /\ ent'[sw.e].compressed = load.compress
       /\ ent'[sw.e].size = ent'[sw.e].compressed_len
       /\ ent'[sw.e].size < ent[sw.e].size
       /\ bytes' - bytes = ent'[sw.e].size - ent[sw.e].size
       /\ get(Cache', ent[sw.e].key, ent[sw.e].auxkey1, ent[sw.e].auxkey2,
              Keep').r = 1
       /\ get(Cache', ent[sw.e].key, ent[sw.e].auxkey1, ent[sw.e].auxkey2,
              Keep').out = Content(ent[sw.e].data)]_vars

\* the entry the get of the step is for (0: none)
Target == Lookup(Cache, ret'.key, ret'.auxkey1, ret'.auxkey2)

\* C16: a get whose decompression fails destroys the entry, which leaves L0
\* and the index, objects drops by one and bytes by size + ENTRY_OVERHEAD,
\* the cursor is not on it, the get returns miss, and no other entry, nor
\* L1 and history, changes.
C16_DecompressFails ==
  [][(ret'.op = "get" /\ ret'.path = "Z_ERR") =>
       /\ Target \in SeqSet(L0)
       /\ ent[Target].compressed # 0
       /\ ret'.r = 0
       /\ ret'.out = NoContent
       /\ DOMAIN ent' = DOMAIN ent \ {Target}
       /\ \A x \in DOMAIN ent' : ent'[x] = ent[x]
       /\ L0' = SeqRemove(L0, Target)
       /\ L1' = L1
       /\ \A i \in DOMAIN bucket' : Target \notin SeqSet(bucket'[i])
       /\ objects' = objects - 1
       /\ history' = history
       /\ bytes' = bytes - (ent[Target].size + ENTRY_OVERHEAD)
       /\ compressed' # Target
       /\ compressed' \in {0} \cup SeqSet(L0')]_vars

\* C16 witness: a get of a compressed resident failed to decompress while
\* another resident and the cursor were there; the entry is gone
C16_Witness ==
  /\ ret.op = "get"
  /\ ret.path = "Z_ERR"
  /\ ret.r = 0
  /\ objects > 0
  /\ \A x \in DOMAIN ent : ent[x].key # ret.key

\* C17: every resident entry that holds its payload as put has len equal to
\* the byte length of that payload.
C17_LenIsPayloadLength ==
  \A x \in SeqSet(L0) : ent[x].compressed = 0 => ent[x].len = ent[x].data.n

\* the cache as the lookup loop of the put of the step leaves it
Walked ==
  put_walk(Cache, BucketAt(Cache, word(ret'.key, 3) % nbuckets),
           [key |-> ret'.key, auxkey1 |-> ret'.auxkey1,
            auxkey2 |-> ret'.auxkey2]).c

\* C18: a put that finds no entry of its key and aux keys and does not take
\* the initial-fill exit writes the key's fingerprint k to seen[s]; when
\* history >= objects and seen[s] held another value it returns not stored
\* and changes nothing else; otherwise it goes on to the victims loop: with
\* L0 empty it inserts the key or finds no victim, else it dequeues the head
\* of L0 and leaves the key as a ghost.
C18_SeenFilter ==
  [][(/\ ret'.op = "put"
      /\ ret'.was = "none"
      /\ ~(Walked.lru[2] = <<>> /\ Walked.bytes + ret'.size <= max_bytes)) =>
       /\ SeenAt(Cache', SeenSlot(Walked, ret'.key)) = Fingerprint(ret'.key)
       /\ IF /\ Walked.history >= Walked.objects
             /\ SeenAt(Walked, SeenSlot(Walked, ret'.key))
                  # Fingerprint(ret'.key)
          THEN /\ ret'.r = 0
               /\ ret'.path = "UNSEEN"
               /\ Cache' = [Walked EXCEPT !.seen = seen']
          ELSE IF Walked.lru[1] = <<>>
               THEN ret'.path \in {"INSERTED", "NO VICTIM"}
               ELSE /\ ret'.path = "HISTORY"
                    /\ ret'.r = 0
                    /\ L0' = Rotated(Walked.lru[1], 1)
                    /\ Ghost(Cache', ret'.key)]_vars

\* C18 witness: a put of a new key was turned down by the filter with
\* residents and at least as many ghosts there, its fingerprint now in its
\* slot
C18_Witness ==
  /\ ret.op = "put"
  /\ ret.path = "UNSEEN"
  /\ ret.was = "none"
  /\ objects > 0
  /\ history >= objects
  /\ SeenAt(Cache, SeenSlot(Cache, ret.key)) = Fingerprint(ret.key)
  /\ Fingerprint(ret.key) # 0

\* C19: a put that finds its key and aux keys on L0 returns stored; the
\* entry has one more hit, is the last of L0, holds the new payload with the
\* new size, is not compressed, and bytes moves by new size - old size;
\* the other entries, the rest of L0 in its order, L1, objects, history, the
\* index and seen[] are as before.
C19_InPlaceUpdate ==
  [][(ret'.op = "put" /\ ret'.was = "resident") =>
       /\ ret'.r = 1
       /\ ret'.path = "HIT"
       /\ DOMAIN ent' = DOMAIN ent
       /\ \A x \in DOMAIN ent \ {Target} : ent'[x] = ent[x]
       /\ ent'[Target] = [ent[Target] EXCEPT !.hits = @ + 1,
                                             !.size = ret'.size,
                                             !.data = ent'[Target].data,
                                             !.copy = ret'.copy,
                                             !.compressed = 0]
       /\ Content(ent'[Target].data) = Content(ret'.data)
       /\ ~ret'.copy => ent'[Target].data = ret'.data
       /\ L0' = SeqRemove(L0, Target) \o <<Target>>
       /\ L1' = L1
       /\ bytes' = bytes + ret'.size - ent[Target].size
       /\ objects' = objects
       /\ history' = history
       /\ bucket' = bucket
       /\ seen' = seen]_vars

\* C19 witness: an update in place of an entry that was not the last of L0,
\* with a payload of another size
C19_Witness ==
  /\ ret.op = "put"
  /\ ret.path = "HIT"
  /\ Len(L0) >= 2
  /\ ent[L0[Len(L0)]].key = ret.key
  /\ ent[L0[Len(L0)]].hits >= 2
  /\ ent[L0[Len(L0)]].size = ret.size
  /\ ent[L0[Len(L0)]].len # ret.data.n

\* C20 as stated: a get that matches an entry on L0 returns hit, the entry
\* has one more hit and is the last of L0; a get that matches a ghost
\* returns miss, the ghost is the last of L1, its hits, L0, bytes and objects
\* are as before; a get that matches nothing returns miss and changes
\* nothing.
C20_ReadPath ==
  [][(ret'.op = "get" /\ max_bytes # 0) =>
       IF Target = 0 THEN ret'.r = 0 /\ UNCHANGED cvars
       ELSE IF Target \in SeqSet(L1)
            THEN /\ ret'.r = 0
                 /\ L1' = SeqRemove(L1, Target) \o <<Target>>
                 /\ ent' = ent
                 /\ L0' = L0
                 /\ bytes' = bytes
                 /\ objects' = objects
            ELSE /\ ret'.r = 1
                 /\ Target \in DOMAIN ent'
                 /\ ent'[Target].hits = ent[Target].hits + 1
                 /\ L0' = SeqRemove(L0, Target) \o <<Target>>]_vars

\* C20: the same, but a get that matches a compressed entry on L0 whose
\* decompression fails returns miss, the entry destroyed.
C20_ReadPathCodec ==
  [][(ret'.op = "get" /\ max_bytes # 0) =>
       IF Target = 0 THEN ret'.r = 0 /\ UNCHANGED cvars
       ELSE IF Target \in SeqSet(L1)
            THEN /\ ret'.r = 0
                 /\ L1' = SeqRemove(L1, Target) \o <<Target>>
                 /\ ent' = ent
                 /\ L0' = L0
                 /\ bytes' = bytes
                 /\ objects' = objects
            ELSE IF ret'.path = "Z_ERR"
                 THEN /\ ent[Target].compressed # 0
                      /\ ret'.r = 0
                      /\ Target \notin DOMAIN ent'
                      /\ L0' = SeqRemove(L0, Target)
                 ELSE /\ ret'.r = 1
                      /\ Target \in DOMAIN ent'
                      /\ ent'[Target].hits = ent[Target].hits + 1
                      /\ L0' = SeqRemove(L0, Target) \o <<Target>>
                      /\ L1' = L1]_vars

\* C20 witness: a get hit an entry that was not the last of L0 and now is,
\* with ghosts there
C20_Witness ==
  /\ ret.op = "get"
  /\ ret.r = 1
  /\ Len(L0) >= 2
  /\ L1 # <<>>
  /\ ent[L0[Len(L0)]].key = ret.key
  /\ ent[L0[Len(L0)]].hits >= 2
  /\ ent[L0[1]].hits >= 2

\* C21: when the sweep commits the codec's result l for a candidate it found
\* again and l > REQUIRED_COMPRESSION x len, the entry is marked
\* incompressible and stays uncompressed, its data, size and bytes as they
\* were; when l > REQUIRED_SHRINK x size the entry stays as it was likewise;
\* no entry is both incompressible and compressed; an entry that was
\* compressed or incompressible keeps its payload over a step of the sweep.
C21_Thresholds ==
  [][(ret'.op = "compress") =>
       /\ (/\ Reacquires
           /\ ret'.was = "found"
           /\ \/ 100 * CompressedLen(Prefix(sw.edata, sw.elen).val, sw.elen)
                   > REQUIRED_COMPRESSION_PCT * ent[sw.e].len
              \/ 100 * CompressedLen(Prefix(sw.edata, sw.elen).val, sw.elen)
                   > REQUIRED_SHRINK_PCT * ent[sw.e].size) =>
            /\ sw.e \in DOMAIN ent'
            /\ ent'[sw.e] = [ent[sw.e] EXCEPT
                               !.incompressible = ent'[sw.e].incompressible]
            /\ (100 * CompressedLen(Prefix(sw.edata, sw.elen).val, sw.elen)
                  > REQUIRED_COMPRESSION_PCT * ent[sw.e].len)
                 => ent'[sw.e].incompressible
            /\ bytes' = bytes
       /\ \A x \in DOMAIN ent' :
            ~(ent'[x].incompressible /\ ent'[x].compressed # 0)
       /\ \A x \in DOMAIN ent :
            (ent[x].incompressible \/ ent[x].compressed # 0) =>
               /\ x \in DOMAIN ent'
               /\ ent'[x].data = ent[x].data
               /\ ent'[x].size = ent[x].size]_vars

\* C22: in a put that runs one tick (a key with no entry, left as a ghost
\* after the first victim), the tick takes the oldest ghost; when its hits
\* are positive after ageing it is requeued at the back of L1 with hits 1 and
\* no entry is freed; a ghost is freed only when its own hits have reached
\* zero and history > objects + HISTORY_HYSTERIA; at most one ghost is freed.
C22_Tick ==
  [][(/\ ret'.op = "put"
      /\ ret'.path = "HISTORY"
      /\ ret'.was = "none"
      /\ Walked.lru[2] # <<>>) =>
       LET old == Walked.lru[2]
           freed == {x \in SeqSet(old) : x \notin DOMAIN ent'}
       IN /\ Shl1(Walked.ent[Head(old)].hits) # 0 =>
               /\ freed = {}
               /\ Head(old) \in DOMAIN ent'
               /\ ent'[Head(old)].hits = 1
               /\ Len(L1') >= 2
               /\ L1'[Len(L1') - 1] = Head(old)
          /\ \A x \in freed :
               /\ Shl1(Walked.ent[x].hits) = 0
               /\ Walked.history > Walked.objects + HISTORY_HYSTERIA
          /\ Cardinality(freed) <= 1]_vars

\* C23: over a put that destroys no entry for its aux keys, the hits of an entry other than the one put never grow,
\* and a victim the put turned into a ghost holds half the hits it had
\* (rounded down), the count the contest compared.
C23_Halved ==
  [][(ret'.op = "put" /\ ~ret'.conflict) =>
       \A x \in (DOMAIN ent \cap DOMAIN ent') \ {Target} :
          /\ ent'[x].hits <= ent[x].hits
          /\ (x \in SeqSet(L0) /\ x \in SeqSet(L1')) =>
                ent'[x].hits = ent[x].hits \div 2]_vars

\* C24: a get that decompresses a compressed resident entry stored with
\* copy = false leaves the entry uncompressed, holding the decompressed
\* payload of len bytes, its size the decompressed length len and bytes moved
\* by the same delta; afterwards every uncompressed entry on L0 is charged at
\* least the length of its payload.
C24_DecompressedSize ==
  [][(/\ ret'.op = "get"
      /\ ret'.r = 1
      /\ Target # 0
      /\ ent[Target].compressed # 0
      /\ ~ent[Target].copy) =>
       /\ ent'[Target].compressed = 0
       /\ Content(ent'[Target].data) = ret'.out
       /\ ent'[Target].data.n = ent[Target].len
       /\ ent'[Target].size = ent[Target].len
       /\ bytes' = bytes + ent[Target].len - ent[Target].size
       /\ \A x \in SeqSet(L0') :
            ent'[x].compressed = 0 => ent'[x].size >= ent'[x].data.n]_vars

\* C25: every entry has hits >= 1 before and after every operation; a ghost
\* leaves the cache only in a put, and unless that put destroyed an entry for
\* its aux keys, only as many ghosts leave as history exceeded
\* objects + HISTORY_HYSTERIA at the put's ticks (none when it did not).
C25_HitsPositive ==
  [][/\ \A x \in DOMAIN ent : ent[x].hits >= 1
     /\ \A x \in DOMAIN ent' : ent'[x].hits >= 1
     /\ LET freed == {x \in SeqSet(L1) : x \notin DOMAIN ent'}
        IN freed # {} =>
             /\ ret'.op = "put"
             /\ \/ ret'.conflict
                \/ /\ history > objects + HISTORY_HYSTERIA
                   /\ Cardinality(freed)
                        <= history - (objects + HISTORY_HYSTERIA)]_vars

\* C25 witness: a ghost of the warm-up that no put named since is gone, freed
\* by the tick of a put that left its key as a ghost; the hits of every entry
\* are positive
C25_Witness ==
  /\ load.warm > 0
  /\ ret.op = "put"
  /\ ret.path = "HISTORY"
  /\ ~ret.conflict
  /\ Cardinality({x \in SeqSet(L1) : ent[x].key \notin everPut})
       = load.warm - 2
  /\ \A x \in DOMAIN ent : ent[x].hits >= 1

\* C26: no two entries, resident or ghost, hold the same digest, whatever
\* their aux keys, and every entry is on one of the two queues.
C26_OneEntryPerKey ==
  /\ \A x \in DOMAIN ent : \A y \in DOMAIN ent :
        ent[x].key = ent[y].key => x = y
  /\ \A x \in DOMAIN ent : Count(L0, x) + Count(L1, x) = 1

\* C26 witness: a put has destroyed the entry its digest had under other aux
\* keys and left one entry of the digest, next to entries of other digests,
\* ghosts among them
C26_Witness ==
  /\ ret.op = "put"
  /\ ret.conflict
  /\ Cardinality({x \in DOMAIN ent : ent[x].key = ret.key}) = 1
  /\ Cardinality(DOMAIN ent) >= 2
  /\ L1 # <<>>
  /\ L0 # <<>>

\* C27: a put of a digest that has no entry returns stored only if
\* bytes + size <= max_bytes and L1 or L0 is empty; with entries on both
\* queues it is turned down by the seen filter, or ends with its victim
\* back on L0 and the digest a ghost, returning not stored.
C27_NewKeyAdmission ==
  [][(ret'.op = "put" /\ ret'.was = "none" /\ ~ret'.conflict) =>
       /\ ret'.r = 1 =>
            /\ bytes + ret'.size <= max_bytes
            /\ L1 = <<>> \/ L0 = <<>>
            /\ Resident(Cache', ret'.key)
       /\ (L0 # <<>> /\ L1 # <<>>) =>
            /\ ret'.r = 0
            /\ ~Resident(Cache', ret'.key)
            /\ SeqSet(L0') = SeqSet(L0)
            /\ objects' = objects
            /\ bytes' = bytes
            /\ \/ ret'.path = "UNSEEN" /\ ~Ghost(Cache', ret'.key)
               \/ ret'.path = "HISTORY" /\ Ghost(Cache', ret'.key)]_vars

\* C27 witness: with a resident and a ghost there, a put of a digest that had
\* no entry was left a ghost although its payload fits under max_bytes
C27_Witness ==
  /\ ret.op = "put"
  /\ ret.was = "none"
  /\ ~ret.conflict
  /\ ret.path = "HISTORY"
  /\ bytes + ret.size <= max_bytes
  /\ L0 # <<>>
  /\ Len(L1) >= 2
  /\ Ghost(Cache, ret.key)

\* C28: a put that returns not stored and destroyed no entry for its aux
\* keys leaves the set of entries on L0, bytes and objects as they were, and
\* every resident entry as it was but for its hits, which are the same or,
\* for a victim the put dequeued and put back, 1.
C28_NotStoredFrame ==
  [][(ret'.op = "put" /\ ret'.r = 0 /\ ~ret'.conflict) =>
       /\ SeqSet(L0') = SeqSet(L0)
       /\ Len(L0') = Len(L0)
       /\ bytes' = bytes
       /\ objects' = objects
       /\ \A x \in SeqSet(L0) :
            /\ x \in DOMAIN ent'
            /\ ent'[x] = [ent[x] EXCEPT !.hits = ent'[x].hits]
            /\ ent'[x].hits \in {ent[x].hits, 1}]_vars

\* C28 witness: a put lost the contest after dequeuing the head of an L0 of
\* two entries or more, which went back behind the others with hits 1
C28_Witness ==
  /\ ret.op = "put"
  /\ ret.r = 0
  /\ ~ret.conflict
  /\ ret.path = "INC HISTORY"
  /\ Len(L0) >= 2
  /\ objects = Len(L0)
  /\ ent[L0[Len(L0)]].hits = 1
  /\ ent[L0[Len(L0)]].data.ptr # 0

====
